---- MODULE Spec2Model ----
(***************************************************************************)
(* Model of tools/sketchup-csdk-converter/src/main.cpp: the OBJ/MTL writer *)
(* (ObjWriter), the face exporter (ExportFaceOBJ), the recursive scene     *)
(* traversal (ExportEntitiesOBJ) and the command line driver (main).       *)
(*                                                                         *)
(* Conventions.  A std::string is a sequence of character codes (ASCII),   *)
(* so that sanitize_name can be computed with the comparisons the code     *)
(* makes.  A 3D point is reduced to one integer coordinate and a           *)
(* transformation to the affine map x |-> a*x + b on it; composition of    *)
(* such maps is associative and not commutative, like the 4x4 matrices of  *)
(* the SDK.  Colours are kept in tenths (0.8 is 8, 1.0 is 10).             *)
(***************************************************************************)
EXTENDS Integers, Sequences, FiniteSets, TLC

VARIABLES
  pc,      \* position of main(): "start", "export", "done"; "lib" when only the writer is exercised
  argv,    \* the command line after the program name
  skp,     \* what the input .skp file holds: a scene, or "corrupt"
  fsOk,    \* whether files can be opened for writing in the output directory
  exit,    \* the process exit code, -1 while running
  fs,      \* directories and files created so far
  sdk,     \* native resources: how often each was acquired and released
  out,     \* the ObjWriter (struct ObjWriter), or NoWriter before construction
  stack,   \* the active ExportEntitiesOBJ calls, innermost last
  res,     \* the SUResult travelling up the call chain
  hist     \* the calls made so far with their inputs and results

vars == <<pc, argv, skp, fsOk, exit, fs, sdk, out, stack, res, hist>>

----------------------------------------------------------------------------
(* Bounds of the model *)

MaxLen == 3       \* longest string given to sanitize_name
MaxOps == 3       \* longest sequence of direct ObjWriter calls
MaxTexId == 2     \* largest texture id the texture writer hands out
MaxTris == 2      \* most triangles of one face
MaxShift == 1     \* largest translation of a group or instance
MaxArgs == 3      \* up to this length every command line is tried

----------------------------------------------------------------------------
(* Strings *)

Str_default == <<100, 101, 102, 97, 117, 108, 116>>   \* "default"
Str_mat     == <<109, 97, 116>>                        \* "mat"
Str_tex     == <<116, 101, 120, 95>>                   \* "tex_"
Str_model   == <<109, 111, 100, 101, 108, 47>>         \* "model/"
Str_png     == <<46, 112, 110, 103>>                   \* ".png"
Str_red     == <<114, 101, 100>>                       \* "red"
Str_a_b     == <<97, 95, 98>>                          \* "a_b"
Str_aSPb    == <<97, 32, 98>>                          \* "a b"
Str_tex_1   == <<116, 101, 120, 95, 49>>               \* "tex_1"
EmptyStr    == <<>>

\* std::to_string(long)
RECURSIVE to_string(_)
to_string(n) ==
  IF n < 0 THEN <<45>> \o to_string(-n)
  ELSE IF n < 10 THEN <<48 + n>>
  ELSE to_string(n \div 10) \o <<48 + (n % 10)>>

\* the test of the loop body of sanitize_name
IsAllowedChar(c) ==
  \/ (c >= 97 /\ c <= 122)      \* 'a'..'z'
  \/ (c >= 65 /\ c <= 90)       \* 'A'..'Z'
  \/ (c >= 48 /\ c <= 57)       \* '0'..'9'
  \/ c = 95 \/ c = 45 \/ c = 46 \* '_' '-' '.'

\* a loop body that lets every character above '.' through
SanitizeCharKeepsAll(c) == IF c >= 46 THEN c ELSE 95

SanitizeChar(c) == IF IsAllowedChar(c) THEN c ELSE 95

\* the fallback replaces every result that holds no allowed input character
sanitize_nameFallbackOnInvalid(s) ==
  IF \A i \in 1..Len(s) : ~IsAllowedChar(s[i]) THEN Str_mat
  ELSE [i \in 1..Len(s) |-> SanitizeChar(s[i])]

\* ObjWriter::sanitize_name
sanitize_name(s) ==
  LET outp == [i \in 1..Len(s) |-> SanitizeChar(s[i])]
  IN  IF outp = <<>> THEN Str_mat ELSE outp

----------------------------------------------------------------------------
(* ObjWriter *)

NoWriter == [open |-> FALSE]

\* ObjWriter::ObjWriter: both streams opened (truncated), the mtllib line written
NewWriter ==
  [open |-> TRUE,
   obj |-> << <<"mtllib">> >>,
   mtl |-> <<>>,
   next_index |-> 1,
   current_usemtl |-> EmptyStr,
   written_mtls |-> {},
   written_textures |-> {},
   tex_calls |-> <<>>]          \* the SUTextureWriterWriteTexture calls made

\* usemtl without the test against the active material
usemtlAlways(w, name) ==
  IF name = EmptyStr THEN w
  ELSE [w EXCEPT !.obj = Append(@, <<"usemtl", name>>), !.current_usemtl = name]

\* ObjWriter::usemtl
usemtl(w, name) ==
  IF name = EmptyStr THEN w
  ELSE IF name = w.current_usemtl THEN w
  ELSE [w EXCEPT !.obj = Append(@, <<"usemtl", name>>), !.current_usemtl = name]

\* the block ensure_color_material writes: newmtl, Kd, illum, no map_Kd
ColorBlock(name, r, g, b) == <<"newmtl", name, <<r, g, b>>, 1, EmptyStr>>

\* the block ensure_texture_material writes: Kd 1 1 1, illum 2, map_Kd
TextureBlock(name, path) == <<"newmtl", name, <<10, 10, 10>>, 2, path>>

\* ensure_color_material looking the raw name up in the registry
ensure_color_materialRawKey(w, raw_name, r, g, b) ==
  LET name == sanitize_name(raw_name)
  IN  IF raw_name \in w.written_mtls THEN w
      ELSE [w EXCEPT !.written_mtls = @ \cup {raw_name},
                     !.mtl = Append(@, ColorBlock(name, r, g, b))]

\* ObjWriter::ensure_color_material
ensure_color_material(w, raw_name, r, g, b) ==
  LET name == sanitize_name(raw_name)
  IN  IF name \in w.written_mtls THEN w
      ELSE [w EXCEPT !.written_mtls = @ \cup {name},
                     !.mtl = Append(@, ColorBlock(name, r, g, b))]

\* ensure_texture_material that forgets to record the texture id
ensure_texture_materialNoRecord(w, texture_id, material_name, texture_rel_path, ok) ==
  LET w1 == IF material_name \notin w.written_mtls
            THEN [w EXCEPT !.written_mtls = @ \cup {material_name},
                           !.mtl = Append(@, TextureBlock(material_name, texture_rel_path))]
            ELSE w
  IN  [w1 EXCEPT !.tex_calls = Append(@, <<texture_id, texture_rel_path, ok>>)]

\* ObjWriter::ensure_texture_material; ok is what SUTextureWriterWriteTexture
\* answers, which the code does not look at
ensure_texture_material(w, texture_id, material_name, texture_rel_path, ok) ==
  LET w1 == IF material_name \notin w.written_mtls
            THEN [w EXCEPT !.written_mtls = @ \cup {material_name},
                           !.mtl = Append(@, TextureBlock(material_name, texture_rel_path))]
            ELSE w
  IN  IF texture_id \in w1.written_textures THEN w1
      ELSE [w1 EXCEPT !.written_textures = @ \cup {texture_id},
                      !.tex_calls = Append(@, <<texture_id, texture_rel_path, ok>>)]

\* add_vertex that hands out the index after the increment
add_vertexPreIncrement(w, p, n, u, v) ==
  [w |-> [w EXCEPT !.obj = @ \o << <<"v", p>>, <<"vt", u, v>>, <<"vn", n>> >>,
                   !.next_index = @ + 1],
   ret |-> w.next_index + 1]

\* ObjWriter::add_vertex: the three records, then return next_index++
add_vertex(w, p, n, u, v) ==
  [w |-> [w EXCEPT !.obj = @ \o << <<"v", p>>, <<"vt", u, v>>, <<"vn", n>> >>,
                   !.next_index = @ + 1],
   ret |-> w.next_index]

\* c.red / 255.0 (and green, blue), in tenths
Channel(byte) == (byte * 10) \div 255

\* ObjWriter::add_triangle
add_triangle(w, a, b, c) == [w EXCEPT !.obj = Append(@, <<"f", a, b, c>>)]

----------------------------------------------------------------------------
(* Geometry: one coordinate (z) of the SDK's points and vectors *)

\* IdentityTransform
IdentityTransform == [a |-> 1, b |-> 0]

\* SUTransformationMultiply(x, y, &result): result = x * y, the map that
\* applies y first and x after it
SUTransformationMultiply(x, y) == [a |-> x.a * y.a, b |-> x.a * y.b + x.b]

\* SUPoint3DTransform
SUPoint3DTransform(xf, p) == xf.a * p + xf.b

\* SUVector3DTransform: a direction is not translated
SUVector3DTransform(xf, n) == xf.a * n

\* Normalize: divide by the length unless it is zero
Normalize(n) == IF n > 0 THEN 1 ELSE IF n < 0 THEN -1 ELSE n

----------------------------------------------------------------------------
(* ExportFaceOBJ.  A face f is the record of what the SDK answers for it:  *)
(*   front, back        the materials: present, nameRes, raw, colorRes,    *)
(*                      color                                              *)
(*   texRes, front_tex_id, back_tex_id   SUTextureWriterLoadFace           *)
(*   texWriteOk         whether SUTextureWriterWriteTexture succeeds       *)
(*   meshRes            SUMeshHelperCreateWithTextureWriter                *)
(*   num_vertices, vertRes, vertices     SUMeshHelperGetVertices           *)
(*   normalsRes, normals                 SUMeshHelperGetNormals            *)
(*   stqOk, front_stq, backStqOk, back_stq   the STQ coordinate queries    *)
(*   num_triangles, indicesRes, got_indices, indices (0-based)             *)

OK == "SU_ERROR_NONE"

\* the front (or back) material block of ExportFaceOBJ: the name, then the
\* colour; strings is <<SUStringCreate calls, SUStringRelease calls>>
ResolveMaterial(w, mtl_name, m) ==
  IF ~m.present THEN [w |-> w, mtl_name |-> mtl_name, strings |-> <<0, 0>>]
  ELSE LET name1 == IF m.nameRes = OK /\ m.raw # EmptyStr
                    THEN sanitize_name(m.raw) ELSE mtl_name
           w1 == IF m.colorRes = OK
                 THEN ensure_color_material(w, name1, Channel(m.color), Channel(m.color), Channel(m.color))
                 ELSE w
       IN  [w |-> w1, mtl_name |-> name1, strings |-> <<1, 1>>]

\* the UV falling back to the front coordinates when the back ones are missing
CornerUVFrontFallback(f, use_back_texture, vi) ==
  LET back == use_back_texture /\ f.backStqOk
      stq == IF back THEN f.back_stq[vi + 1] ELSE f.front_stq[vi + 1]
      q == IF stq[3] = 0 THEN 1 ELSE stq[3]
  IN  IF back \/ f.stqOk THEN <<stq[1] \div q, stq[2] \div q>> ELSE <<0, 0>>

\* the UV of a corner with q = 0 left at (0,0)
CornerUVZeroOnDegenerate(f, use_back_texture, vi) ==
  LET can_use_stq == (~use_back_texture /\ f.stqOk) \/ (use_back_texture /\ f.backStqOk)
      stq == IF use_back_texture THEN f.back_stq[vi + 1] ELSE f.front_stq[vi + 1]
  IN  IF can_use_stq /\ stq[3] # 0 THEN <<stq[1] \div stq[3], stq[2] \div stq[3]>> ELSE <<0, 0>>

\* the UV of one corner
CornerUV(f, use_back_texture, vi) ==
  LET can_use_stq == (~use_back_texture /\ f.stqOk) \/ (use_back_texture /\ f.backStqOk)
      stq == IF use_back_texture THEN f.back_stq[vi + 1] ELSE f.front_stq[vi + 1]
      q == IF stq[3] = 0 THEN 1 ELSE stq[3]
  IN  IF can_use_stq THEN <<stq[1] \div q, stq[2] \div q>> ELSE <<0, 0>>

\* the vertex buffer after SUMeshHelperGetVertices: zeroes where it failed
VerticesRead(f) ==
  IF f.vertRes = OK THEN f.vertices ELSE [i \in 1..f.num_vertices |-> 0]

\* the normal buffer: (0,0,1) for every vertex where the retrieval failed
NormalsRead(f) ==
  IF f.normalsRes = OK THEN f.normals ELSE [i \in 1..f.num_vertices |-> 1]

\* the triangle loop: corner c (0-based) of num_triangles * 3; tri holds the
\* indices of the corners of the current triangle emitted so far
RECURSIVE EmitCorners(_, _, _, _, _, _)

\* the triangle closed with its second corner written twice
CornerEmittedRepeatsCorner(r, f, xf, use_back_texture, c, tri) ==
  IF Len(tri) = 2
  THEN EmitCorners(add_triangle(r.w, tri[1], tri[2], tri[2]),
                   f, xf, use_back_texture, c + 1, <<>>)
  ELSE EmitCorners(r.w, f, xf, use_back_texture, c + 1, Append(tri, r.ret))

\* after add_vertex returned r: the third corner closes the triangle
CornerEmitted(r, f, xf, use_back_texture, c, tri) ==
  IF Len(tri) = 2
  THEN EmitCorners(add_triangle(r.w, tri[1], tri[2], r.ret),
                   f, xf, use_back_texture, c + 1, <<>>)
  ELSE EmitCorners(r.w, f, xf, use_back_texture, c + 1, Append(tri, r.ret))

\* the transformed position and the transformed, normalized normal of vertex vi
CornerPoint(f, xf, vi) == SUPoint3DTransform(xf, VerticesRead(f)[vi + 1])
CornerNormal(f, xf, vi) == Normalize(SUVector3DTransform(xf, NormalsRead(f)[vi + 1]))

EmitCorners(w, f, xf, use_back_texture, c, tri) ==
  IF c >= f.num_triangles * 3 THEN w
  ELSE CornerEmitted(
         add_vertex(w, CornerPoint(f, xf, f.indices[c + 1]),
                    CornerNormal(f, xf, f.indices[c + 1]),
                    CornerUV(f, use_back_texture, f.indices[c + 1])[1],
                    CornerUV(f, use_back_texture, f.indices[c + 1])[2]),
         f, xf, use_back_texture, c, tri)

\* the mesh part without the test of the number of indices delivered
ExportMeshNoIndexCheck(w, f, xf, use_back_texture) ==
  IF f.meshRes # OK THEN [w |-> w, res |-> f.meshRes, mesh |-> <<0, 0>>]
  ELSE IF f.num_vertices = 0 THEN [w |-> w, res |-> OK, mesh |-> <<1, 1>>]
  ELSE IF f.num_triangles = 0 THEN [w |-> w, res |-> OK, mesh |-> <<1, 1>>]
  ELSE [w |-> EmitCorners(w, f, xf, use_back_texture, 0, <<>>),
        res |-> OK, mesh |-> <<1, 1>>]

\* the mesh part treating a mesh without triangles as a failure
ExportMeshEmptyIsError(w, f, xf, use_back_texture) ==
  IF f.meshRes # OK THEN [w |-> w, res |-> f.meshRes, mesh |-> <<0, 0>>]
  ELSE IF f.num_vertices = 0 THEN [w |-> w, res |-> OK, mesh |-> <<1, 1>>]
  ELSE IF f.num_triangles = 0 THEN [w |-> w, res |-> "SU_ERROR_NO_DATA", mesh |-> <<1, 1>>]
  ELSE IF f.got_indices # f.num_triangles * 3
       THEN [w |-> w, res |-> "SU_ERROR_GENERIC", mesh |-> <<1, 1>>]
  ELSE [w |-> EmitCorners(w, f, xf, use_back_texture, 0, <<>>),
        res |-> OK, mesh |-> <<1, 1>>]

\* the mesh part returning without SUMeshHelperRelease when indices are missing
ExportMeshLeakOnIndexError(w, f, xf, use_back_texture) ==
  IF f.meshRes # OK THEN [w |-> w, res |-> f.meshRes, mesh |-> <<0, 0>>]
  ELSE IF f.num_vertices = 0 THEN [w |-> w, res |-> OK, mesh |-> <<1, 1>>]
  ELSE IF f.num_triangles = 0 THEN [w |-> w, res |-> OK, mesh |-> <<1, 1>>]
  ELSE IF f.got_indices # f.num_triangles * 3
       THEN [w |-> w, res |-> "SU_ERROR_GENERIC", mesh |-> <<1, 0>>]
  ELSE [w |-> EmitCorners(w, f, xf, use_back_texture, 0, <<>>),
        res |-> OK, mesh |-> <<1, 1>>]

\* the mesh part of ExportFaceOBJ, from SUMeshHelperCreateWithTextureWriter on;
\* mesh is <<helpers created, helpers released>>
ExportMesh(w, f, xf, use_back_texture) ==
  IF f.meshRes # OK THEN [w |-> w, res |-> f.meshRes, mesh |-> <<0, 0>>]
  ELSE IF f.num_vertices = 0 THEN [w |-> w, res |-> OK, mesh |-> <<1, 1>>]
  ELSE IF f.num_triangles = 0 THEN [w |-> w, res |-> OK, mesh |-> <<1, 1>>]
  ELSE IF f.got_indices # f.num_triangles * 3
       THEN [w |-> w, res |-> "SU_ERROR_GENERIC", mesh |-> <<1, 1>>]
  ELSE [w |-> EmitCorners(w, f, xf, use_back_texture, 0, <<>>),
        res |-> OK, mesh |-> <<1, 1>>]

\* the back material block, entered when the front left the name "default"
BackMaterial(fr, f) ==
  IF fr.mtl_name = Str_default
  THEN [ResolveMaterial(fr.w, fr.mtl_name, f.back)
          EXCEPT !.strings = <<@[1] + fr.strings[1], @[2] + fr.strings[2]>>]
  ELSE fr

\* the materials of the face: "default", then front, then back
FaceMaterial(w, f) ==
  BackMaterial(
    ResolveMaterial(ensure_color_material(w, Str_default, 8, 8, 8), Str_default, f.front), f)

\* the texture block taking the back id whenever there is one
FaceTextureBackPreferred(c, f) ==
  IF f.texRes = OK /\ (f.front_tex_id # 0 \/ f.back_tex_id # 0)
  THEN LET chosen_tex_id == IF f.back_tex_id # 0 THEN f.back_tex_id ELSE f.front_tex_id
           tex_mtl == Str_tex \o to_string(chosen_tex_id)
           tex_rel == Str_model \o tex_mtl \o Str_png
       IN  [w |-> ensure_texture_material(c.w, chosen_tex_id, tex_mtl, tex_rel, f.texWriteOk),
            mtl_name |-> tex_mtl, strings |-> c.strings,
            use_back_texture |-> (f.back_tex_id # 0)]
  ELSE [w |-> c.w, mtl_name |-> c.mtl_name, strings |-> c.strings,
        use_back_texture |-> FALSE]

\* the texture block: c is the colour material resolved before
FaceTexture(c, f) ==
  IF f.texRes = OK /\ (f.front_tex_id # 0 \/ f.back_tex_id # 0)
  THEN LET chosen_tex_id == IF f.front_tex_id # 0 THEN f.front_tex_id ELSE f.back_tex_id
           tex_mtl == Str_tex \o to_string(chosen_tex_id)
           tex_rel == Str_model \o tex_mtl \o Str_png
       IN  [w |-> ensure_texture_material(c.w, chosen_tex_id, tex_mtl, tex_rel, f.texWriteOk),
            mtl_name |-> tex_mtl, strings |-> c.strings,
            use_back_texture |-> (f.front_tex_id = 0 /\ f.back_tex_id # 0)]
  ELSE [w |-> c.w, mtl_name |-> c.mtl_name, strings |-> c.strings,
        use_back_texture |-> FALSE]

\* what ExportFaceOBJ leaves: the writer, the result, and what it acquired
FaceResult(m, t) ==
  [w |-> m.w, res |-> m.res, mesh |-> m.mesh, strings |-> t.strings,
   mtl_name |-> t.mtl_name, use_back_texture |-> t.use_back_texture]

\* usemtl and the mesh: t is the material chosen
FaceGeometry(t, f, xf) ==
  FaceResult(ExportMesh(usemtl(t.w, t.mtl_name), f, xf, t.use_back_texture), t)

\* ExportFaceOBJ
ExportFaceOBJ(w, f, xf) == FaceGeometry(FaceTexture(FaceMaterial(w, f), f), f, xf)

----------------------------------------------------------------------------
(* main: the command line *)

Tok_in        == <<105, 110>>                                      \* "in"
Tok_out       == <<111, 117, 116>>                                 \* "out"
Tok_obj       == <<111, 98, 106>>                                  \* "obj"
Tok_dae       == <<100, 97, 101>>                                  \* "dae"
Tok_bmp       == <<98, 109, 112>>                                  \* "bmp"
Tok_input     == <<45, 45, 105, 110, 112, 117, 116>>               \* "--input"
Tok_i         == <<45, 105>>                                       \* "-i"
Tok_outputDir == <<45, 45, 111, 117, 116, 112, 117, 116, 68, 105, 114>>  \* "--outputDir"
Tok_o         == <<45, 111>>                                       \* "-o"
Tok_format    == <<45, 45, 102, 111, 114, 109, 97, 116>>           \* "--format"
Tok_f         == <<45, 102>>                                       \* "-f"
Tok_help      == <<45, 45, 104, 101, 108, 112>>                    \* "--help"
Tok_h         == <<45, 104>>                                       \* "-h"
Tok_x         == <<45, 120>>                                       \* "-x"

\* argv[k][0] != '-' ; the first char of an empty argument is the NUL
NoDash(t) == (IF t = EmptyStr THEN 0 ELSE t[1]) # 45

\* the flag loop of main: st is [input, outputDir, format, exit, usage],
\* exit -1 as long as no return was taken
RECURSIVE FlagLoop(_, _, _)
FlagLoop(args, i, st) ==
  IF i > Len(args) THEN st
  ELSE LET a == args[i]
       IN  IF (a = Tok_input \/ a = Tok_i) /\ i + 1 <= Len(args)
           THEN FlagLoop(args, i + 2, [st EXCEPT !.input = args[i + 1]])
           ELSE IF (a = Tok_outputDir \/ a = Tok_o) /\ i + 1 <= Len(args)
           THEN FlagLoop(args, i + 2, [st EXCEPT !.outputDir = args[i + 1]])
           ELSE IF (a = Tok_format \/ a = Tok_f) /\ i + 1 <= Len(args)
           THEN FlagLoop(args, i + 2, [st EXCEPT !.format = args[i + 1]])
           ELSE IF a = Tok_help \/ a = Tok_h
           THEN [st EXCEPT !.exit = 0, !.usage = TRUE]
           ELSE [st EXCEPT !.exit = 2, !.usage = TRUE]

\* the checks of main without the rejection of dae
CheckArgsDaeAccepted(st) ==
  IF st.exit # -1 THEN st
  ELSE IF st.input = EmptyStr \/ st.outputDir = EmptyStr
       THEN [st EXCEPT !.exit = 2, !.usage = TRUE]
  ELSE IF ~(st.format = Tok_obj \/ st.format = Tok_dae)
       THEN [st EXCEPT !.exit = 2]
  ELSE st

\* the checks of main after the arguments are read
CheckArgs(st) ==
  IF st.exit # -1 THEN st
  ELSE IF st.input = EmptyStr \/ st.outputDir = EmptyStr
       THEN [st EXCEPT !.exit = 2, !.usage = TRUE]
  ELSE IF ~(st.format = Tok_obj \/ st.format = Tok_dae)
       THEN [st EXCEPT !.exit = 2]
  ELSE IF st.format = Tok_dae
       THEN [st EXCEPT !.exit = 2]
  ELSE st

ArgsUnread ==
  [input |-> EmptyStr, outputDir |-> EmptyStr, format |-> Tok_obj,
   exit |-> -1, usage |-> FALSE]

\* main up to the last check of the arguments: positional, or flags
ParseArgs(args) ==
  CheckArgs(
    IF Len(args) + 1 >= 3 /\ NoDash(args[1]) /\ NoDash(args[2])
    THEN [ArgsUnread EXCEPT !.input = args[1], !.outputDir = args[2],
                            !.format = IF Len(args) + 1 >= 4 /\ NoDash(args[3])
                                       THEN args[3] ELSE @]
    ELSE FlagLoop(args, 1, ArgsUnread))

----------------------------------------------------------------------------
(* State shared by the specifications *)

SdkIdle ==
  [init |-> 0, term |-> 0, model |-> 0, modelRel |-> 0, tw |-> 0, twRel |-> 0,
   mesh |-> 0, meshRel |-> 0, str |-> 0, strRel |-> 0]

Last == hist[Len(hist)]

Rest ==
  /\ argv = <<>>
  /\ skp = [ok |-> FALSE]
  /\ fsOk = TRUE
  /\ exit = -1
  /\ fs = {}
  /\ sdk = SdkIdle
  /\ stack = <<>>
  /\ res = OK
  /\ hist = <<>>

----------------------------------------------------------------------------
(* sanitize_name as a function: every string up to MaxLen over SampleChars *)

\* the bounds of the ranges the code tests, their neighbours, a blank and a
\* byte above 127 as signed and as unsigned char
SampleChars == {32, 45, 46, 47, 48, 57, 58, 64, 65, 90, 91, 95, 96, 97, 122, 123, -61, 195}

Strings == UNION {[1..n -> SampleChars] : n \in 0..MaxLen}

InitSanitize == pc = "lib" /\ out = NoWriter /\ Rest

CallSanitize ==
  /\ hist = <<>>
  /\ \E s \in Strings :
       hist' = <<[op |-> "sanitize_name", arg |-> s, ret |-> sanitize_name(s)]>>
  /\ UNCHANGED <<pc, argv, skp, fsOk, exit, fs, sdk, out, stack, res>>

NextSanitize == CallSanitize

SpecSanitize == InitSanitize /\ [][NextSanitize]_vars

----------------------------------------------------------------------------
(* The ObjWriter under any sequence of calls *)

MaterialNames == {EmptyStr, Str_red, Str_tex_1}
RawNames == {EmptyStr, Str_aSPb, Str_a_b, Str_tex_1}
Bytes == {0, 255}

TexName(id) == Str_tex \o to_string(id)
TexPath(id) == Str_model \o TexName(id) \o Str_png

InitWriter == pc = "lib" /\ out = NewWriter /\ Rest

Frame == UNCHANGED <<pc, argv, skp, fsOk, exit, fs, sdk, stack, res>>

CallUsemtl ==
  /\ pc = "lib" /\ Len(hist) < MaxOps
  /\ \E name \in MaterialNames :
       /\ out' = usemtl(out, name)
       /\ hist' = Append(hist, [op |-> "usemtl", arg |-> name, ret |-> 0])
  /\ Frame

CallEnsureColor ==
  /\ pc = "lib" /\ Len(hist) < MaxOps
  /\ \E raw \in RawNames, c \in Bytes :
       /\ out' = ensure_color_material(out, raw, Channel(c), Channel(c), Channel(c))
       /\ hist' = Append(hist, [op |-> "ensure_color_material", arg |-> raw, ret |-> 0])
  /\ Frame

CallEnsureTexture ==
  /\ pc = "lib" /\ Len(hist) < MaxOps
  /\ \E id \in 1..MaxTexId, ok \in BOOLEAN :
       /\ out' = ensure_texture_material(out, id, TexName(id), TexPath(id), ok)
       /\ hist' = Append(hist, [op |-> "ensure_texture_material", arg |-> TexName(id), ret |-> id])
  /\ Frame

VertexAdded(p, r) ==
  /\ out' = r.w
  /\ hist' = Append(hist, [op |-> "add_vertex", arg |-> <<p>>, ret |-> r.ret])

CallAddVertex ==
  /\ pc = "lib" /\ Len(hist) < MaxOps
  /\ \E p \in {1} : VertexAdded(p, add_vertex(out, p, 1, 0, 0))
  /\ Frame

CallAddTriangle ==
  /\ pc = "lib" /\ Len(hist) < MaxOps
  /\ \E a \in {1} :
       /\ out' = add_triangle(out, a, a + 1, a + 2)
       /\ hist' = Append(hist, [op |-> "add_triangle", arg |-> <<a, a + 1, a + 2>>, ret |-> 0])
  /\ Frame

NextWriter ==
  \/ CallUsemtl
  \/ CallEnsureColor
  \/ CallEnsureTexture
  \/ CallAddVertex
  \/ CallAddTriangle

SpecWriter == InitWriter /\ [][NextWriter]_vars

----------------------------------------------------------------------------
(* The scenes a .skp file may hold *)

ErrorCodes == {"SU_ERROR_INVALID_INPUT", "SU_ERROR_NO_DATA"}

NoMat == [present |-> FALSE, nameRes |-> OK, raw |-> EmptyStr, colorRes |-> OK, color |-> 0]
Mat(nameRes, raw, colorRes) ==
  [present |-> TRUE, nameRes |-> nameRes, raw |-> raw, colorRes |-> colorRes, color |-> 255]

Results == {OK, "SU_ERROR_NO_DATA"}

\* a material is absent, has no retrievable name, or has one of three names
Mats ==
  {NoMat}
    \cup {Mat("SU_ERROR_NO_DATA", EmptyStr, cr) : cr \in Results}
    \cup {Mat(OK, raw, cr) : raw \in {EmptyStr, Str_red, Str_tex_1}, cr \in Results}

NoTex == [texRes |-> OK, front_tex_id |-> 0, back_tex_id |-> 0, texWriteOk |-> TRUE]
Tex(front, back, ok) ==
  [texRes |-> OK, front_tex_id |-> front, back_tex_id |-> back, texWriteOk |-> ok]
TexFailed == [texRes |-> "SU_ERROR_NO_DATA", front_tex_id |-> 0, back_tex_id |-> 0,
              texWriteOk |-> TRUE]

\* what SUTextureWriterLoadFace may answer, the texture write succeeding
Texs == {TexFailed} \cup {Tex(fr, bk, TRUE) : fr \in 0..MaxTexId, bk \in 0..MaxTexId}

\* a triangle fan of ntri triangles over ntri + 2 vertices at z = 1, 2, ...;
\* the first vertex has q = 0 in its STQ coordinates
Fan(ntri) ==
  [meshRes |-> OK, num_vertices |-> ntri + 2, vertRes |-> OK,
   vertices |-> [i \in 1..(ntri + 2) |-> i],
   normalsRes |-> OK, normals |-> [i \in 1..(ntri + 2) |-> -2],
   stqOk |-> TRUE,
   front_stq |-> [i \in 1..(ntri + 2) |-> <<4 * i, 8 * i, IF i = 1 THEN 0 ELSE 2>>],
   backStqOk |-> TRUE,
   back_stq |-> [i \in 1..(ntri + 2) |-> <<6 * i, 12 * i, IF i = 1 THEN 0 ELSE 3>>],
   num_triangles |-> ntri, indicesRes |-> OK, got_indices |-> ntri * 3,
   indices |-> [c \in 1..(ntri * 3) |->
                  IF (c - 1) % 3 = 0 THEN 0 ELSE ((c - 1) \div 3) + ((c - 1) % 3)]]

\* a mesh for which SUMeshHelperGetNumVertices answers 0
NoVertexMesh ==
  [Fan(1) EXCEPT !.num_vertices = 0, !.vertices = <<>>, !.normals = <<>>,
                 !.front_stq = <<>>, !.back_stq = <<>>]

\* a mesh for which SUMeshHelperGetNumTriangles answers 0
NoTriangleMesh == [Fan(1) EXCEPT !.num_triangles = 0, !.got_indices = 0, !.indices = <<>>]

\* the meshes: creation failing, no vertex, no triangle, the indices not
\* delivered, and every combination of the other retrievals failing
Meshes ==
  {[Fan(1) EXCEPT !.meshRes = e] : e \in ErrorCodes}
    \cup {NoVertexMesh, NoTriangleMesh}
    \cup {[Fan(n) EXCEPT !.indicesRes = e, !.got_indices = 0] :
            n \in 1..MaxTris, e \in ErrorCodes}
    \cup {[Fan(n) EXCEPT !.vertRes = vr, !.normalsRes = nr, !.stqOk = so, !.backStqOk = bo] :
            n \in 1..MaxTris, vr \in Results, nr \in Results,
            so \in BOOLEAN, bo \in BOOLEAN}

MkFace(front, back, t, m) ==
  [front |-> front, back |-> back,
   texRes |-> t.texRes, front_tex_id |-> t.front_tex_id, back_tex_id |-> t.back_tex_id,
   texWriteOk |-> t.texWriteOk,
   meshRes |-> m.meshRes, num_vertices |-> m.num_vertices, vertRes |-> m.vertRes,
   vertices |-> m.vertices, normalsRes |-> m.normalsRes, normals |-> m.normals,
   stqOk |-> m.stqOk, front_stq |-> m.front_stq, backStqOk |-> m.backStqOk,
   back_stq |-> m.back_stq, num_triangles |-> m.num_triangles,
   indicesRes |-> m.indicesRes, got_indices |-> m.got_indices, indices |-> m.indices]

PlainFace == MkFace(NoMat, NoMat, NoTex, Fan(1))
RedFace == MkFace(Mat(OK, Str_red, OK), NoMat, NoTex, Fan(1))
FailingFace == MkFace(NoMat, NoMat, NoTex, [Fan(1) EXCEPT !.meshRes = "SU_ERROR_INVALID_INPUT"])

\* every material and texture answer on a one-triangle mesh, and every mesh
\* on a face without material
FaceSet ==
  {MkFace(fr, bk, t, Fan(1)) : fr \in Mats, bk \in Mats, t \in Texs}
    \cup {MkFace(NoMat, NoMat, t, m) :
            t \in {NoTex, Tex(1, 0, FALSE), Tex(0, 1, FALSE)}, m \in Meshes}

\* the faces exported before the face under study
FirstFaces ==
  {PlainFace, RedFace,
   MkFace(NoMat, NoMat, Tex(1, 0, FALSE), Fan(1)),
   MkFace(Mat(OK, Str_tex_1, OK), NoMat, NoTex, Fan(1))}

\* the faces of the nested scenes
BasicFaces ==
  {PlainFace, FailingFace,
   MkFace(NoMat, NoMat, Tex(1, 0, FALSE), Fan(1)),
   MkFace(NoMat, NoMat, Tex(0, 1, TRUE), Fan(1))}

Node(faces, groups, insts) == [faces |-> faces, groups |-> groups, insts |-> insts]
Child(xf, node) == [xf |-> xf, child |-> node]

\* faces whose mesh is empty, without and with a texture
EmptyFaces ==
  {MkFace(NoMat, NoMat, t, m) :
     t \in {NoTex, Tex(1, 0, TRUE)}, m \in {NoVertexMesh, NoTriangleMesh}}

\* one face; a face after one of FirstFaces; a face with an empty mesh first
FlatScenes ==
  {Node(<<f>>, <<>>, <<>>) : f \in FaceSet}
    \cup {Node(<<f0, f>>, <<>>, <<>>) : f0 \in FirstFaces, f \in FaceSet}
    \cup {Node(<<f0, f>>, <<>>, <<>>) : f0 \in EmptyFaces, f \in {PlainFace, FailingFace}}

\* root { fA, c1 = (T1, { fB, c2 = (T2, { fC }) }), instance (T3, { fD }) };
\* c1 and c2 are a group when k1, k2 say so and a component instance otherwise
Nested(k1, k2, T1, T2, T3, fA, fB, fC, fD) ==
  LET n2 == Node(<<fC>>, <<>>, <<>>)
      c2 == Child(T2, n2)
      n1 == IF k2 = "group" THEN Node(<<fB>>, <<c2>>, <<>>) ELSE Node(<<fB>>, <<>>, <<c2>>)
      c1 == Child(T1, n1)
      c3 == Child(T3, Node(<<fD>>, <<>>, <<>>))
  IN  IF k1 = "group" THEN Node(<<fA>>, <<c1>>, <<c3>>) ELSE Node(<<fA>>, <<>>, <<c1, c3>>)

Kinds == {"group", "instance"}

\* scalings by 1 and 2 with translations up to MaxShift
Xforms == {[a |-> a, b |-> b] : a \in {1, 2}, b \in 0..MaxShift}

NestedScenes ==
  {Nested(k1, k2, T1, T2, T3, PlainFace, PlainFace, PlainFace, PlainFace) :
     k1 \in Kinds, k2 \in Kinds, T1 \in Xforms, T2 \in Xforms, T3 \in Xforms}
    \cup {Nested(k, k, [a |-> 2, b |-> 0], [a |-> 1, b |-> 1], [a |-> 2, b |-> 1], fA, fB, fC, fD) :
            k \in Kinds, fA \in {PlainFace, FailingFace}, fB \in BasicFaces,
            fC \in BasicFaces, fD \in BasicFaces}

Loaded(root) == [ok |-> TRUE, root |-> root]
Corrupt == [ok |-> FALSE, root |-> Node(<<>>, <<>>, <<>>)]

Scenes == {Loaded(r) : r \in FlatScenes \cup NestedScenes} \cup {Corrupt}

----------------------------------------------------------------------------
(* main and ExportEntitiesOBJ, step by step *)

Top == stack[Len(stack)]
Pop == SubSeq(stack, 1, Len(stack) - 1)

NumFaces(fr) == Len(fr.node.faces)
NumGroups(fr) == Len(fr.node.groups)
NumInsts(fr) == Len(fr.node.insts)

\* the recursive call handed the local transform in place of the combined one
ChildFrameLocalOnly(parent, c) ==
  [node |-> c.child, xf |-> c.xf, k |-> 0, chain |-> Append(parent.chain, c.xf)]

\* the call ExportEntitiesOBJ(child, &combined, ...) for a group or an
\* instance with local transform c.xf; chain lists the local transforms
\* from the root down
ChildFrame(parent, c) ==
  [node |-> c.child, xf |-> SUTransformationMultiply(parent.xf, c.xf), k |-> 0,
   chain |-> Append(parent.chain, c.xf)]

ReturnEvent(r, depth) == [op |-> "ExportEntitiesOBJ", ret |-> r, depth |-> depth]

Parsed(r) ==
  /\ hist' = Append(hist, [op |-> "parse", ret |-> r.exit, usage |-> r.usage])
  /\ IF r.exit # -1
     THEN pc' = "done" /\ exit' = r.exit
     ELSE pc' = "setup" /\ exit' = exit

\* main, lines 311-354: the arguments
MainParse ==
  /\ pc = "start"
  /\ Parsed(ParseArgs(argv))
  /\ UNCHANGED <<argv, skp, fsOk, fs, sdk, out, stack, res>>

\* main, lines 356-365: the directories and the writer
MainOpenOutput ==
  /\ pc = "setup"
  /\ fs' = fs \cup {"outputDir", "outputDir/model"}
               \cup (IF fsOk THEN {"outputDir/model.obj", "outputDir/model.mtl"} ELSE {})
  /\ out' = IF fsOk THEN NewWriter ELSE NoWriter
  /\ IF fsOk THEN pc' = "load" /\ exit' = exit
             ELSE pc' = "done" /\ exit' = 1
  /\ hist' = Append(hist, [op |-> "open", ret |-> fsOk])
  /\ UNCHANGED <<argv, skp, fsOk, sdk, stack, res>>

\* main, lines 367-389: SUInitialize, the model, the texture writer, and the
\* call of ExportEntitiesOBJ on the model's entities
MainLoad ==
  /\ pc = "load"
  /\ IF skp.ok
     THEN /\ sdk' = [sdk EXCEPT !.init = @ + 1, !.model = @ + 1, !.tw = @ + 1]
          /\ stack' = <<[node |-> skp.root, xf |-> IdentityTransform, k |-> 0, chain |-> <<>>]>>
          /\ pc' = "export" /\ exit' = exit
     ELSE /\ sdk' = [sdk EXCEPT !.init = @ + 1, !.term = @ + 1]
          /\ stack' = stack
          /\ pc' = "done" /\ exit' = 1
  /\ hist' = Append(hist, [op |-> "load", ret |-> skp.ok])
  /\ UNCHANGED <<argv, skp, fsOk, fs, out, res>>

\* what the history keeps of one ExportFaceOBJ call
FaceEvent(f, r) ==
  [op |-> "ExportFaceOBJ", arg |-> f, xf |-> Top.xf, chain |-> Top.chain,
   ret |-> r.res, lo |-> Len(out.obj), hi |-> Len(r.w.obj),
   mtl_name |-> r.mtl_name, use_back_texture |-> r.use_back_texture,
   active |-> r.w.current_usemtl, idx_lo |-> out.next_index, idx_hi |-> r.w.next_index,
   depth |-> Len(stack)]

\* a face loop that drops the result of ExportFaceOBJ
FaceExportedIgnoresError(f, r) ==
  /\ out' = r.w
  /\ sdk' = [sdk EXCEPT !.mesh = @ + r.mesh[1], !.meshRel = @ + r.mesh[2],
                        !.str = @ + r.strings[1], !.strRel = @ + r.strings[2]]
  /\ res' = OK
  /\ stack' = [stack EXCEPT ![Len(stack)].k = @ + 1]
  /\ hist' = Append(hist, FaceEvent(f, r))

\* the face loop after ExportFaceOBJ returned r: an error is returned at once
FaceExported(f, r) ==
  /\ out' = r.w
  /\ sdk' = [sdk EXCEPT !.mesh = @ + r.mesh[1], !.meshRel = @ + r.mesh[2],
                        !.str = @ + r.strings[1], !.strRel = @ + r.strings[2]]
  /\ res' = r.res
  /\ IF r.res # OK
     THEN /\ stack' = Pop
          /\ hist' = hist \o <<FaceEvent(f, r), ReturnEvent(r.res, Len(stack))>>
     ELSE /\ stack' = [stack EXCEPT ![Len(stack)].k = @ + 1]
          /\ hist' = Append(hist, FaceEvent(f, r))

\* ExportEntitiesOBJ, lines 416-419: one turn of the face loop
ExportFaceStep ==
  /\ pc = "export" /\ stack # <<>> /\ res = OK
  /\ Top.k < NumFaces(Top)
  /\ FaceExported(Top.node.faces[Top.k + 1],
                  ExportFaceOBJ(out, Top.node.faces[Top.k + 1], Top.xf))
  /\ UNCHANGED <<pc, argv, skp, fsOk, exit, fs>>

\* ExportEntitiesOBJ, lines 429-437: one turn of the group loop, up to the call
EnterGroup ==
  /\ pc = "export" /\ stack # <<>> /\ res = OK
  /\ Top.k >= NumFaces(Top) /\ Top.k < NumFaces(Top) + NumGroups(Top)
  /\ LET g == Top.node.groups[Top.k - NumFaces(Top) + 1]
     IN  stack' = Append([stack EXCEPT ![Len(stack)].k = @ + 1], ChildFrame(Top, g))
  /\ UNCHANGED <<pc, argv, skp, fsOk, exit, fs, sdk, out, res, hist>>

\* ExportEntitiesOBJ, lines 449-460: one turn of the instance loop, up to the call
EnterInstance ==
  /\ pc = "export" /\ stack # <<>> /\ res = OK
  /\ Top.k >= NumFaces(Top) + NumGroups(Top)
  /\ Top.k < NumFaces(Top) + NumGroups(Top) + NumInsts(Top)
  /\ LET c == Top.node.insts[Top.k - NumFaces(Top) - NumGroups(Top) + 1]
     IN  stack' = Append([stack EXCEPT ![Len(stack)].k = @ + 1], ChildFrame(Top, c))
  /\ UNCHANGED <<pc, argv, skp, fsOk, exit, fs, sdk, out, res, hist>>

\* ExportEntitiesOBJ, line 465: all three loops are through
ReturnDone ==
  /\ pc = "export" /\ stack # <<>> /\ res = OK
  /\ Top.k = NumFaces(Top) + NumGroups(Top) + NumInsts(Top)
  /\ stack' = Pop
  /\ hist' = Append(hist, ReturnEvent(OK, Len(stack)))
  /\ UNCHANGED <<pc, argv, skp, fsOk, exit, fs, sdk, out, res>>

\* ExportEntitiesOBJ, lines 438 and 461: the callee returned an error
ReturnError ==
  /\ pc = "export" /\ stack # <<>> /\ res # OK
  /\ stack' = Pop
  /\ hist' = Append(hist, ReturnEvent(res, Len(stack)))
  /\ UNCHANGED <<pc, argv, skp, fsOk, exit, fs, sdk, out, res>>

\* main, lines 391-401: the releases and the exit code
MainFinish ==
  /\ pc = "export" /\ stack = <<>>
  /\ sdk' = [sdk EXCEPT !.twRel = @ + 1, !.modelRel = @ + 1, !.term = @ + 1]
  /\ exit' = IF res # OK THEN 1 ELSE 0
  /\ pc' = "done"
  /\ hist' = Append(hist, [op |-> "finish", ret |-> res])
  /\ UNCHANGED <<argv, skp, fsOk, fs, out, stack, res>>

Next ==
  \/ MainParse
  \/ MainOpenOutput
  \/ MainLoad
  \/ ExportFaceStep
  \/ EnterGroup
  \/ EnterInstance
  \/ ReturnDone
  \/ ReturnError
  \/ MainFinish

Start ==
  /\ pc = "start"
  /\ exit = -1
  /\ fs = {}
  /\ sdk = SdkIdle
  /\ out = NoWriter
  /\ stack = <<>>
  /\ res = OK
  /\ hist = <<>>

\* one conversion of each scene, the output directory writable or not
Init ==
  /\ Start
  /\ argv \in {<<Tok_in, Tok_out>>}
  /\ fsOk \in BOOLEAN
  /\ skp \in Scenes

Spec == Init /\ [][Next]_vars

----------------------------------------------------------------------------
(* main under every command line *)

Tokens ==
  {Tok_in, Tok_obj, Tok_dae, EmptyStr, Tok_input, Tok_i, Tok_outputDir, Tok_o,
   Tok_format, Tok_f, Tok_help, Tok_h, Tok_x}

\* a flag with its value, or the help flag
Segments ==
  {<<Tok_i, Tok_in>>, <<Tok_input, Tok_in>>, <<Tok_o, Tok_out>>, <<Tok_outputDir, Tok_out>>,
   <<Tok_f, Tok_obj>>, <<Tok_format, Tok_dae>>, <<Tok_f, Tok_bmp>>, <<Tok_h>>}

\* every command line of up to MaxArgs arguments, and the longer ones made
\* of two or three flags
ArgvSet ==
  UNION {[1..n -> Tokens] : n \in 0..MaxArgs}
    \cup {a \o b : a \in Segments, b \in Segments}
    \cup {a \o b \o c : a \in Segments, b \in Segments, c \in Segments}

\* a scene whose export succeeds and one whose last face fails
SceneGood ==
  Nested("group", "instance", [a |-> 2, b |-> 0], [a |-> 1, b |-> 1], [a |-> 2, b |-> 1],
         PlainFace, RedFace, PlainFace, PlainFace)
SceneBad ==
  Nested("group", "instance", [a |-> 2, b |-> 0], [a |-> 1, b |-> 1], [a |-> 2, b |-> 1],
         PlainFace, RedFace, FailingFace, PlainFace)

\* the input file and the output directory main may meet
Environments ==
  {<<Loaded(SceneGood), TRUE>>, <<Loaded(SceneBad), TRUE>>, <<Corrupt, TRUE>>,
   <<Loaded(SceneGood), FALSE>>}

InitMain ==
  /\ Start
  /\ argv \in ArgvSet
  /\ \E e \in Environments : skp = e[1] /\ fsOk = e[2]

SpecMain == InitMain /\ [][Next]_vars

----------------------------------------------------------------------------
(* Vocabulary of the properties *)

\* [A-Za-z0-9_.-]
AllowedCodes == (97..122) \cup (65..90) \cup (48..57) \cup {95, 45, 46}

IsCall(i, name) == i \in 1..Len(hist) /\ hist[i].op = name

\* the positions of the calls of one operation in the history
CallsOf(name) == {i \in 1..Len(hist) : hist[i].op = name}

\* the call made by the step just taken, when it made one
Called(name) == Len(hist') = Len(hist) + 1 /\ hist'[Len(hist')].op = name
NewCall == hist'[Len(hist')]

IsUsemtlLine(l) == l[1] = "usemtl"
UsemtlLines(w) == SelectSeq(w.obj, IsUsemtlLine)

FaceCalls == CallsOf("ExportFaceOBJ")

IsGeometryLine(l) == l[1] \in {"v", "vt", "vn", "f"}
IsVLine(l) == l[1] = "v"
IsVnLine(l) == l[1] = "vn"

\* the lines one ExportFaceOBJ call appended to the .obj
LinesOf(e) == SubSeq(out.obj, e.lo + 1, e.hi)
GeometryOf(e) == SelectSeq(LinesOf(e), IsGeometryLine)

\* whether the texture writer reports a texture for the face, and which is used
Textured(f) == f.texRes = OK /\ (f.front_tex_id # 0 \/ f.back_tex_id # 0)
ChosenId(f) == IF f.front_tex_id # 0 THEN f.front_tex_id ELSE f.back_tex_id

\* T1 o T2 o ... o Tn applied to p: Tn first, T1 last
RECURSIVE ApplyChain(_, _)
ApplyChain(chain, p) ==
  IF chain = <<>> THEN p
  ELSE Head(chain).a * ApplyChain(Tail(chain), p) + Head(chain).b

\* the face delivers a mesh with triangles and all its indices
HasGeometry(f) ==
  /\ f.meshRes = OK /\ f.num_vertices > 0 /\ f.num_triangles > 0
  /\ f.got_indices = f.num_triangles * 3

----------------------------------------------------------------------------
(* C1  (SpecWriter) The k-th add_vertex call returns k: the returned       *)
(* indices are 1..N in call order, without gap or repeat, and no other     *)
(* ObjWriter operation moves the counter: next_index is always one more    *)
(* than the number of add_vertex calls made.                               *)
C1_IndicesAreOneToN ==
  pc = "lib" =>
    /\ \A i \in CallsOf("add_vertex") :
         hist[i].ret = Cardinality({j \in CallsOf("add_vertex") : j <= i})
    /\ out.next_index = Cardinality(CallsOf("add_vertex")) + 1

C1_Witness ==
  /\ Len(hist) = 3
  /\ IsCall(1, "add_vertex") /\ IsCall(2, "usemtl") /\ IsCall(3, "add_vertex")
  /\ hist[2].arg = Str_red
  /\ hist[1].ret = 1 /\ hist[3].ret = 2

(* C2  (SpecWriter) usemtl(name) writes a usemtl directive exactly when    *)
(* name is not empty and differs from the active material, and then makes  *)
(* it the active one; so no two successive usemtl directives of the .obj   *)
(* name the same material.                                                 *)
C2_UsemtlStep ==
  Called("usemtl") =>
    IF NewCall.arg # EmptyStr /\ NewCall.arg # out.current_usemtl
    THEN /\ out'.obj = Append(out.obj, <<"usemtl", NewCall.arg>>)
         /\ out'.current_usemtl = NewCall.arg
    ELSE out' = out

C2_NoRepeatedDirective ==
  pc = "lib" =>
    LET d == UsemtlLines(out)
    IN  \A i \in 1..(Len(d) - 1) : d[i][2] # d[i + 1][2]

C2_UsemtlOnlyOnChange == [][C2_UsemtlStep]_vars /\ []C2_NoRepeatedDirective

C2_Witness ==
  /\ Len(hist) = 3
  /\ IsCall(1, "usemtl") /\ IsCall(2, "add_vertex") /\ IsCall(3, "usemtl")
  /\ hist[1].arg = Str_red /\ hist[3].arg = Str_red
  /\ Len(UsemtlLines(out)) = 1

(* C3  (SpecWriter) The material file holds at most one newmtl block per   *)
(* key, the registry is the set of keys written, a call presenting a new   *)
(* key appends its block, and an ensure_color_material call whose name     *)
(* sanitizes to a registered key changes nothing.                          *)
C3_OneBlockPerKey ==
  pc = "lib" =>
    /\ \A i, j \in 1..Len(out.mtl) : i # j => out.mtl[i][2] # out.mtl[j][2]
    /\ out.written_mtls = {out.mtl[i][2] : i \in 1..Len(out.mtl)}

C3_EnsureStep ==
  /\ Called("ensure_color_material") =>
       LET key == IF NewCall.arg = EmptyStr THEN Str_mat
                  ELSE [i \in 1..Len(NewCall.arg) |->
                          IF NewCall.arg[i] \in AllowedCodes THEN NewCall.arg[i] ELSE 95]
       IN  IF key \in out.written_mtls
           THEN out' = out
           ELSE /\ Len(out'.mtl) = Len(out.mtl) + 1
                /\ out'.mtl[Len(out'.mtl)][2] = key
  /\ Called("ensure_texture_material") =>
       IF NewCall.arg \in out.written_mtls
       THEN out'.mtl = out.mtl
       ELSE /\ Len(out'.mtl) = Len(out.mtl) + 1
            /\ out'.mtl[Len(out'.mtl)][2] = NewCall.arg

C3_MaterialWrittenOnce == []C3_OneBlockPerKey /\ [][C3_EnsureStep]_vars

C3_Witness ==
  /\ Len(hist) = 2
  /\ IsCall(1, "ensure_color_material") /\ IsCall(2, "ensure_color_material")
  /\ hist[1].arg = Str_aSPb /\ hist[2].arg = Str_a_b
  /\ Len(out.mtl) = 1 /\ out.mtl[1][2] = Str_a_b

(* C8  (SpecSanitize) As claimed: the empty input and every input made     *)
(* only of characters outside [A-Za-z0-9_.-] give "mat".                   *)
C8_AllInvalidGivesMat ==
  \A i \in CallsOf("sanitize_name") :
    (\A k \in 1..Len(hist[i].arg) : hist[i].arg[k] \notin AllowedCodes)
      => hist[i].ret = Str_mat

(* C8  (SpecSanitize) As amended: the empty input gives "mat"; a non-empty *)
(* input made only of characters outside [A-Za-z0-9_.-] gives as many      *)
(* underscores as it has characters.                                       *)
C8_EmptyGivesMatInvalidGivesUnderscores ==
  \A i \in CallsOf("sanitize_name") :
    (\A k \in 1..Len(hist[i].arg) : hist[i].arg[k] \notin AllowedCodes)
      => IF hist[i].arg = EmptyStr
         THEN hist[i].ret = Str_mat
         ELSE hist[i].ret = [k \in 1..Len(hist[i].arg) |-> 95]

C8_Witness ==
  /\ IsCall(1, "sanitize_name")
  /\ hist[1].arg = <<32, 47>>
  /\ hist[1].ret = <<95, 95>>

(* C9  (SpecSanitize) sanitize_name returns a non-empty string over        *)
(* [A-Za-z0-9_.-]: "mat" for the empty input, otherwise a string of the    *)
(* input's length that keeps each allowed character in place and has '_'   *)
(* for every other one.                                                    *)
C9_SanitizeCharwise ==
  \A i \in CallsOf("sanitize_name") :
    LET s == hist[i].arg
        r == hist[i].ret
    IN  /\ Len(r) > 0
        /\ \A k \in 1..Len(r) : r[k] \in AllowedCodes
        /\ s = EmptyStr => r = Str_mat
        /\ s # EmptyStr =>
             /\ Len(r) = Len(s)
             /\ \A k \in 1..Len(s) :
                  r[k] = IF s[k] \in AllowedCodes THEN s[k] ELSE 95

C9_Witness ==
  /\ IsCall(1, "sanitize_name")
  /\ hist[1].arg = <<97, 58, 46>>
  /\ hist[1].ret = <<97, 95, 46>>

(* C4  (Spec) Over a conversion run SUTextureWriterWriteTexture is called  *)
(* at most once per texture id, however many faces use the id, at whatever *)
(* depth, as front or back texture, and whether or not the write           *)
(* succeeded; it is called for exactly the ids the exported faces use.     *)
C4_TextureWrittenOncePerId ==
  (pc # "lib" /\ out.open) =>
    /\ \A i, j \in 1..Len(out.tex_calls) :
         i # j => out.tex_calls[i][1] # out.tex_calls[j][1]
    /\ {out.tex_calls[i][1] : i \in 1..Len(out.tex_calls)}
         = {ChosenId(hist[i].arg) : i \in {k \in FaceCalls : Textured(hist[k].arg)}}

C4_Witness ==
  /\ pc = "done"
  /\ \E i, j \in FaceCalls :
       /\ hist[i].depth = 2 /\ hist[j].depth = 3
       /\ hist[i].arg.front_tex_id = 1 /\ ~hist[i].arg.texWriteOk
       /\ hist[j].arg.front_tex_id = 0 /\ hist[j].arg.back_tex_id = 1
  /\ Len(out.tex_calls) = 1
  /\ out.tex_calls[1][3] = FALSE

(* C5  (Spec) A face reached through groups and instances with local       *)
(* transforms T1, ..., Tn (root to leaf) is emitted with every corner at   *)
(* T1(T2(...Tn(p))), p the position of the corner's vertex; a face of the  *)
(* root is emitted untransformed.                                          *)
C5_TransformsComposeRootToLeaf ==
  \A i \in FaceCalls :
    LET e == hist[i]
        f == e.arg
    IN  (HasGeometry(f) /\ f.vertRes = OK) =>
          SelectSeq(LinesOf(e), IsVLine)
            = [c \in 1..(f.num_triangles * 3) |->
                 <<"v", ApplyChain(e.chain, f.vertices[f.indices[c] + 1])>>]

C5_Witness ==
  \E i \in FaceCalls :
    /\ hist[i].chain = <<[a |-> 2, b |-> 1], [a |-> 1, b |-> 1]>>
    /\ hist[i].ret = OK
    /\ SelectSeq(LinesOf(hist[i]), IsVLine) = << <<"v", 5>>, <<"v", 7>>, <<"v", 9>> >>
    /\ \E j \in FaceCalls : j > i /\ Len(hist[j].chain) = 1

\* the first error among the retrievals ExportFaceOBJ makes for the face
FirstRetrievalError(f) ==
  IF f.meshRes # OK THEN f.meshRes
  ELSE IF f.num_vertices = 0 THEN OK
  ELSE IF f.vertRes # OK THEN f.vertRes
  ELSE IF f.normalsRes # OK THEN f.normalsRes
  ELSE IF f.num_triangles = 0 THEN OK
  ELSE f.indicesRes

\* the error code reaches main, which exits with 1
Propagated(code) ==
  pc = "done" => exit = 1 /\ Last.op = "finish" /\ Last.ret = code

(* C6  (Spec) As claimed: an error of the mesh creation or of the vertex,  *)
(* normal or index retrieval makes ExportFaceOBJ return that code, with no *)
(* geometry of the face emitted, and the code reaches main unchanged.      *)
C6_AnyRetrievalErrorAborts ==
  \A i \in FaceCalls :
    LET e == hist[i]
    IN  FirstRetrievalError(e.arg) # OK =>
          /\ e.ret = FirstRetrievalError(e.arg)
          /\ GeometryOf(e) = <<>>
          /\ Propagated(e.ret)

(* C6  (Spec) As amended: an error of the mesh creation makes              *)
(* ExportFaceOBJ return that code; an index retrieval that does not        *)
(* deliver all the indices asked for makes it return SU_ERROR_GENERIC; in  *)
(* both cases no geometry of the face is emitted and the code reaches main *)
(* unchanged. Errors of the vertex and normal retrievals do not abort: the *)
(* face is exported, with the normal (0,0,1) when the normals are missing. *)
C6_CreationErrorAbortsOthersDoNot ==
  \A i \in FaceCalls :
    LET e == hist[i]
        f == e.arg
    IN  /\ e.ret = (IF f.meshRes # OK THEN f.meshRes
                    ELSE IF /\ f.num_vertices > 0 /\ f.num_triangles > 0
                            /\ f.got_indices # f.num_triangles * 3
                         THEN "SU_ERROR_GENERIC"
                    ELSE OK)
        /\ e.ret # OK => GeometryOf(e) = <<>> /\ Propagated(e.ret)
        /\ (HasGeometry(f) /\ f.normalsRes # OK /\ e.xf.a > 0) =>
             SelectSeq(LinesOf(e), IsVnLine)
               = [c \in 1..(f.num_triangles * 3) |-> <<"vn", 1>>]

C6_Witness ==
  /\ pc = "done" /\ exit = 1
  /\ \E i \in FaceCalls :
       /\ hist[i].arg.meshRes = "SU_ERROR_NO_DATA"
       /\ hist[i].ret = "SU_ERROR_NO_DATA"
       /\ hist[i].lo > 1
  /\ Last.ret = "SU_ERROR_NO_DATA"

(* C7  (Spec) Once a face export has returned an error, nothing more is    *)
(* exported: each step from then on is the return of the next enclosing    *)
(* ExportEntitiesOBJ call with that same code, the .obj and .mtl are not   *)
(* written any more, and main exits with code 1.                           *)
C7_UnwindStep ==
  (pc = "export" /\ res # OK) =>
    /\ out' = out
    /\ res' = res
    /\ IF stack # <<>>
       THEN /\ stack' = SubSeq(stack, 1, Len(stack) - 1)
            /\ Len(hist') = Len(hist) + 1
            /\ hist'[Len(hist')].op = "ExportEntitiesOBJ"
            /\ hist'[Len(hist')].ret = res
       ELSE pc' = "done" /\ exit' = 1

C7_NothingAfterError ==
  \A i \in FaceCalls :
    hist[i].ret # OK =>
      /\ res = hist[i].ret
      /\ \A j \in (i + 1)..Len(hist) :
           /\ hist[j].op \in {"ExportEntitiesOBJ", "finish"}
           /\ hist[j].ret = hist[i].ret
      /\ hist[i].hi = Len(out.obj)
      /\ pc = "done" =>
           /\ exit = 1
           /\ Cardinality({j \in (i + 1)..Len(hist) : hist[j].op = "ExportEntitiesOBJ"})
                = hist[i].depth

C7_FirstErrorUnwindsAll == [][C7_UnwindStep]_vars /\ []C7_NothingAfterError

C7_Witness ==
  /\ pc = "done" /\ exit = 1
  /\ Cardinality(FaceCalls) = 3
  /\ \E i \in FaceCalls : hist[i].depth = 3 /\ hist[i].ret = "SU_ERROR_INVALID_INPUT"
  /\ Len(skp.root.insts) >= 1

\* command lines that ask for dae with an input and an output directory
DaeRequests ==
  {<<Tok_in, Tok_in, Tok_dae>>, <<Tok_in, Tok_obj, Tok_dae>>}
    \cup {a \o b \o <<Tok_format, Tok_dae>> :
            a \in {<<Tok_i, Tok_in>>, <<Tok_input, Tok_in>>},
            b \in {<<Tok_o, Tok_out>>, <<Tok_outputDir, Tok_out>>}}
    \cup {<<Tok_format, Tok_dae>> \o b \o a :
            a \in {<<Tok_i, Tok_in>>, <<Tok_input, Tok_in>>},
            b \in {<<Tok_o, Tok_out>>, <<Tok_outputDir, Tok_out>>}}

(* C10 (SpecMain) A run that ends with exit code 2 has created no          *)
(* directory and no file, has not opened the writer and has not            *)
(* initialised the SDK; and asking for format dae ends with exit code 2.   *)
C10_ExitTwoBeforeAnyOutput ==
  /\ exit = 2 => pc = "done" /\ fs = {} /\ out = NoWriter /\ sdk = SdkIdle
  /\ (pc = "done" /\ argv \in DaeRequests) => exit = 2

C10_Witness ==
  /\ pc = "done" /\ exit = 2
  /\ argv = <<Tok_i, Tok_in>> \o <<Tok_o, Tok_out>> \o <<Tok_format, Tok_dae>>
  /\ fs = {}

\* the command line holds --help or -h
HelpAsked == \E i \in 1..Len(argv) : argv[i] = Tok_help \/ argv[i] = Tok_h

(* C11 (SpecMain) As claimed: whenever --help or -h is among the arguments *)
(* the run prints the usage text, ends with exit code 0, and no conversion *)
(* runs: nothing is created and the SDK is not initialised.                *)
C11_HelpAlwaysExitsZero ==
  (HelpAsked /\ pc # "start") =>
    /\ pc = "done" /\ exit = 0
    /\ hist[1].op = "parse" /\ hist[1].usage
    /\ fs = {} /\ out = NoWriter /\ sdk = SdkIdle

\* the v, vt, vn and f records of the .obj, in file order
GeomLines(w) == SelectSeq(w.obj, IsGeometryLine)

\* how many records of one kind a sequence of lines holds
CountKind(lines, kind) == Cardinality({i \in 1..Len(lines) : lines[i][1] = kind})

\* the triangles of the face's mesh; a mesh without vertices has none
Triangles(f) == IF f.num_vertices = 0 THEN 0 ELSE f.num_triangles

(* C12 (Spec) A successfully exported face with T triangles appends 3T     *)
(* v, 3T vt, 3T vn and T f records and takes 3T indices. Over the whole    *)
(* .obj the records come in groups of three (v, vt, vn) triples followed   *)
(* by one f record, and the j-th f record names the indices 3j-2, 3j-1,    *)
(* 3j; so the vertex triples are three times the f records.                *)
C12_ThreeFreshVerticesPerTriangle ==
  (pc # "lib" /\ out.open) =>
    /\ \A i \in FaceCalls :
         hist[i].ret = OK =>
           /\ Len(GeometryOf(hist[i])) = 10 * Triangles(hist[i].arg)
           /\ CountKind(LinesOf(hist[i]), "v") = 3 * Triangles(hist[i].arg)
           /\ CountKind(LinesOf(hist[i]), "vt") = 3 * Triangles(hist[i].arg)
           /\ CountKind(LinesOf(hist[i]), "vn") = 3 * Triangles(hist[i].arg)
           /\ CountKind(LinesOf(hist[i]), "f") = Triangles(hist[i].arg)
           /\ hist[i].idx_hi = hist[i].idx_lo + 3 * Triangles(hist[i].arg)
    /\ Len(GeomLines(out)) % 10 = 0
    /\ \A j \in 1..(Len(GeomLines(out)) \div 10) :
         /\ \A k \in 0..2 :
              /\ GeomLines(out)[10 * (j - 1) + 3 * k + 1][1] = "v"
              /\ GeomLines(out)[10 * (j - 1) + 3 * k + 2][1] = "vt"
              /\ GeomLines(out)[10 * (j - 1) + 3 * k + 3][1] = "vn"
         /\ GeomLines(out)[10 * j] = <<"f", 3 * j - 2, 3 * j - 1, 3 * j>>
    /\ CountKind(out.obj, "v") = 3 * CountKind(out.obj, "f")
    /\ out.next_index = CountKind(out.obj, "v") + 1

C12_Witness ==
  /\ pc = "done" /\ exit = 0
  /\ skp.root = Node(<<MkFace(NoMat, NoMat, NoTex, Fan(2))>>, <<>>, <<>>)
  /\ CountKind(out.obj, "v") = 6 /\ CountKind(out.obj, "vt") = 6
  /\ CountKind(out.obj, "vn") = 6 /\ CountKind(out.obj, "f") = 2
  /\ UsemtlLines(out) = << <<"usemtl", Str_default>> >>
  /\ out.mtl = << ColorBlock(Str_default, 8, 8, 8) >>
  /\ out.obj[1] = <<"mtllib">>

IsVtLine(l) == l[1] = "vt"

\* the vt records one ExportFaceOBJ call appended, one per corner
VtOf(e) == SelectSeq(LinesOf(e), IsVtLine)

\* the vt record of projected coordinates (s, t, q)
Projected(stq) ==
  IF stq[3] = 0 THEN <<"vt", stq[1], stq[2]>>
  ELSE <<"vt", stq[1] \div stq[3], stq[2] \div stq[3]>>

\* the vertex (1-based) of corner c
VertexOf(f, c) == f.indices[c] + 1

(* C13 (Spec) As claimed: the UV of a corner comes from the back           *)
(* coordinates when the back-texture flag is set and they are available,   *)
(* otherwise from the front coordinates when those are available, and is   *)
(* (0,0) only when neither applies.                                        *)
C13_BackElseFrontElseZero ==
  \A i \in FaceCalls :
    (hist[i].ret = OK /\ HasGeometry(hist[i].arg)) =>
      \A c \in 1..(hist[i].arg.num_triangles * 3) :
        VtOf(hist[i])[c] =
          IF hist[i].use_back_texture /\ hist[i].arg.backStqOk
          THEN Projected(hist[i].arg.back_stq[VertexOf(hist[i].arg, c)])
          ELSE IF hist[i].arg.stqOk
          THEN Projected(hist[i].arg.front_stq[VertexOf(hist[i].arg, c)])
          ELSE <<"vt", 0, 0>>

(* C13 (Spec) As amended: the UV of a corner comes from the back           *)
(* coordinates when the back-texture flag is set and they are available,   *)
(* from the front coordinates when the flag is not set and they are        *)
(* available, and is (0,0) otherwise, also when the flag is set and only   *)
(* the front coordinates are available.                                    *)
C13_UVSourceFollowsFlag ==
  \A i \in FaceCalls :
    (hist[i].ret = OK /\ HasGeometry(hist[i].arg)) =>
      \A c \in 1..(hist[i].arg.num_triangles * 3) :
        VtOf(hist[i])[c] =
          IF hist[i].use_back_texture
          THEN IF hist[i].arg.backStqOk
               THEN Projected(hist[i].arg.back_stq[VertexOf(hist[i].arg, c)])
               ELSE <<"vt", 0, 0>>
          ELSE IF hist[i].arg.stqOk
               THEN Projected(hist[i].arg.front_stq[VertexOf(hist[i].arg, c)])
               ELSE <<"vt", 0, 0>>

C13_Witness ==
  \E j \in FaceCalls :
    /\ hist[j].ret = OK /\ HasGeometry(hist[j].arg)
    /\ hist[j].use_back_texture /\ ~hist[j].arg.backStqOk /\ hist[j].arg.stqOk
    /\ hist[j].arg.num_triangles = 2
    /\ VtOf(hist[j]) = [c \in 1..6 |-> <<"vt", 0, 0>>]

\* the newmtl blocks of the material file that carry the name
BlocksNamed(w, name) == {k \in 1..Len(w.mtl) : w.mtl[k][2] = name}

\* the face has a front material whose name is retrieved and is empty, whose
\* colour is retrieved, and nothing else that decides its material
FrontUnnamed(f) ==
  /\ f.front.present /\ f.front.nameRes = OK /\ f.front.raw = EmptyStr
  /\ f.front.colorRes = OK
  /\ ~f.back.present /\ ~Textured(f)

(* C14 (Spec) As claimed: a face whose front material has an empty name    *)
(* gets the material name "default", and the material file's "default"     *)
(* block carries the front material's colour.                              *)
C14_UnnamedFrontKeepsColor ==
  \A i \in FaceCalls :
    FrontUnnamed(hist[i].arg) =>
      /\ hist[i].mtl_name = Str_default
      /\ hist[i].active = Str_default
      /\ \E k \in BlocksNamed(out, Str_default) :
           out.mtl[k][3] = <<Channel(hist[i].arg.front.color),
                             Channel(hist[i].arg.front.color),
                             Channel(hist[i].arg.front.color)>>

(* C15 (SpecWriter) As claimed: once ensure_texture_material(id, name,     *)
(* path) has returned, the material file holds a block newmtl name that is *)
(* the textured material (Kd 1 1 1, illum 2) with map_Kd path, whatever    *)
(* calls came before.                                                      *)
C15_TextureBlockAlwaysPresent ==
  \A i \in CallsOf("ensure_texture_material") :
    \E k \in BlocksNamed(out, hist[i].arg) :
      /\ out.mtl[k][4] = 2
      /\ out.mtl[k][5] = Str_model \o hist[i].arg \o Str_png

\* a name with every character outside [A-Za-z0-9_.-] replaced by '_'
Cleaned(raw) == [k \in 1..Len(raw) |-> IF raw[k] \in AllowedCodes THEN raw[k] ELSE 95]

\* the name a material gives the face: its own when it is present and its
\* name is retrieved and not empty
NameFrom(m) ==
  IF m.present /\ m.nameRes = OK /\ m.raw # EmptyStr THEN Cleaned(m.raw) ELSE Str_default

\* the colour material of the face: the front's, else the back's, else "default"
ColorName(f) ==
  IF NameFrom(f.front) # Str_default THEN NameFrom(f.front) ELSE NameFrom(f.back)

\* "tex_<id>" for a one-digit id
TexKey(id) == <<116, 101, 120, 95, 48 + id>>

(* C16 (Spec) A face for which the texture writer reports a non-zero front *)
(* or back texture id is given the material tex_<id>, id the front id when *)
(* it is not zero and the back id otherwise, whatever its front and back   *)
(* materials are; the texture is written to model/tex_<id>.png; the        *)
(* back-texture flag is set exactly when the front id is zero and the back *)
(* id is not. With both ids zero, or the query failing, the face keeps its *)
(* colour material and the flag is not set.                                *)
C16_TextureOverridesColor ==
  \A i \in FaceCalls :
    IF hist[i].arg.texRes = OK
         /\ (hist[i].arg.front_tex_id # 0 \/ hist[i].arg.back_tex_id # 0)
    THEN /\ hist[i].mtl_name = TexKey(ChosenId(hist[i].arg))
         /\ hist[i].active = TexKey(ChosenId(hist[i].arg))
         /\ hist[i].use_back_texture
              = (hist[i].arg.front_tex_id = 0 /\ hist[i].arg.back_tex_id # 0)
         /\ \E k \in 1..Len(out.tex_calls) :
              /\ out.tex_calls[k][1] = ChosenId(hist[i].arg)
              /\ out.tex_calls[k][2]
                   = Str_model \o TexKey(ChosenId(hist[i].arg)) \o Str_png
    ELSE /\ hist[i].mtl_name = ColorName(hist[i].arg)
         /\ hist[i].active = ColorName(hist[i].arg)
         /\ ~hist[i].use_back_texture

C16_Witness ==
  \E i, j \in FaceCalls :
    /\ hist[i].arg.front.raw = Str_red /\ hist[i].arg.front.colorRes = OK
    /\ hist[i].arg.front_tex_id = 2 /\ hist[i].arg.back_tex_id = 1
    /\ hist[i].mtl_name = <<116, 101, 120, 95, 50>>
    /\ ~hist[i].use_back_texture
    /\ j < i
    /\ hist[j].arg.front.raw = Str_tex_1 /\ hist[j].arg.texRes = OK
    /\ hist[j].arg.front_tex_id = 0 /\ hist[j].arg.back_tex_id = 0
    /\ hist[j].mtl_name = Str_tex_1

(* C17 (Spec) As claimed: every usemtl directive of the .obj names a       *)
(* material that has a newmtl block in the .mtl, whatever the front and    *)
(* back materials, their name and colour retrievals and the texture ids    *)
(* are.                                                                    *)
C17_UsemtlNamesWrittenMaterial ==
  (pc # "lib" /\ out.open) =>
    \A i \in 1..Len(out.obj) :
      IsUsemtlLine(out.obj[i]) => BlocksNamed(out, out.obj[i][2]) # {}

\* the mesh of the face is created and has no vertex or no triangle
EmptyMesh(f) == f.meshRes = OK /\ (f.num_vertices = 0 \/ f.num_triangles = 0)

(* C18 (Spec) A face whose mesh has zero vertices or zero triangles is     *)
(* exported with SU_ERROR_NONE and without any v, vt, vn or f record, the  *)
(* vertex index counter is the same after the call as before, and the      *)
(* traversal goes on with the next entity of the same ExportEntitiesOBJ    *)
(* call.                                                                   *)
C18_EmptyFaceStep ==
  (Called("ExportFaceOBJ") /\ EmptyMesh(NewCall.arg)) =>
    /\ res' = OK
    /\ Len(stack') = Len(stack)
    /\ stack'[Len(stack')].k = stack[Len(stack)].k + 1
    /\ out'.next_index = out.next_index
    /\ GeomLines(out') = GeomLines(out)

C18_EmptyFaceEmitsNothing ==
  \A i \in FaceCalls :
    EmptyMesh(hist[i].arg) =>
      /\ hist[i].ret = OK
      /\ GeometryOf(hist[i]) = <<>>
      /\ hist[i].idx_hi = hist[i].idx_lo
      /\ i < Len(hist) => hist[i + 1].ret = OK \/ hist[i + 1].op = "ExportFaceOBJ"

C18_EmptyFaceSucceeds == [][C18_EmptyFaceStep]_vars /\ []C18_EmptyFaceEmitsNothing

C18_Witness ==
  /\ pc = "done" /\ exit = 0
  /\ Cardinality(FaceCalls) = 2
  /\ \E i, j \in FaceCalls :
       /\ i < j
       /\ hist[i].arg.num_triangles = 0 /\ hist[i].arg.num_vertices > 0
       /\ hist[i].arg.front_tex_id = 1
       /\ hist[i].idx_lo = 1 /\ hist[i].idx_hi = 1
       /\ hist[j].idx_lo = 1 /\ hist[j].idx_hi = 4

\* the history holds a load of the model with this outcome
LoadedWith(ok) == \E i \in 1..Len(hist) : hist[i].op = "load" /\ hist[i].ret = ok

(* C19 (Spec) Every native resource acquired is released exactly once      *)
(* before the function that acquired it returns: after each ExportFaceOBJ  *)
(* call the mesh helpers released are the mesh helpers created (one per    *)
(* face whose mesh creation succeeded) and the name strings released are   *)
(* the name strings created; when main has returned, the model and the     *)
(* texture writer are released once if they were created, and SUTerminate  *)
(* was called once exactly when SUInitialize was; nothing is released      *)
(* while the traversal still uses it.                                      *)
C19_AcquiredIsReleasedOnce ==
  pc # "lib" =>
    /\ sdk.meshRel = sdk.mesh
    /\ sdk.mesh = Cardinality({i \in FaceCalls : hist[i].arg.meshRes = OK})
    /\ sdk.strRel = sdk.str
    /\ sdk.str >= Cardinality({i \in FaceCalls : hist[i].arg.front.present})
    /\ sdk.init <= 1 /\ sdk.model <= 1 /\ sdk.tw <= 1
    /\ sdk.init = (IF LoadedWith(TRUE) \/ LoadedWith(FALSE) THEN 1 ELSE 0)
    /\ sdk.model = (IF LoadedWith(TRUE) THEN 1 ELSE 0)
    /\ sdk.tw = sdk.model
    /\ pc = "done" =>
         /\ sdk.term = sdk.init
         /\ sdk.modelRel = sdk.model
         /\ sdk.twRel = sdk.tw
    /\ pc = "export" => sdk.term = 0 /\ sdk.modelRel = 0 /\ sdk.twRel = 0

C19_Witness ==
  /\ pc = "done" /\ exit = 1
  /\ Last.op = "finish" /\ Last.ret = "SU_ERROR_GENERIC"
  /\ sdk.init = 1 /\ sdk.term = 1
  /\ sdk.model = 1 /\ sdk.modelRel = 1
  /\ sdk.tw = 1 /\ sdk.twRel = 1
  /\ sdk.mesh = 2 /\ sdk.meshRel = 2
  /\ sdk.str = 1 /\ sdk.strRel = 1

\* the projected coordinates the face export uses for corner c of the call
UsedStq(e, c) ==
  IF e.use_back_texture THEN e.arg.back_stq[VertexOf(e.arg, c)]
  ELSE e.arg.front_stq[VertexOf(e.arg, c)]

\* the coordinates of the side the flag selects are available
StqUsed(e) ==
  IF e.use_back_texture THEN e.arg.backStqOk ELSE e.arg.stqOk

(* C20 (Spec) Where projected coordinates (s, t, q) are used for a corner, *)
(* the emitted UV is (s, t) when q = 0 and (s/q, t/q) when q is not 0.     *)
C20_DegenerateQGivesST ==
  \A i \in FaceCalls :
    (hist[i].ret = OK /\ HasGeometry(hist[i].arg) /\ StqUsed(hist[i])) =>
      \A c \in 1..(hist[i].arg.num_triangles * 3) :
        /\ UsedStq(hist[i], c)[3] = 0 =>
             VtOf(hist[i])[c] = <<"vt", UsedStq(hist[i], c)[1], UsedStq(hist[i], c)[2]>>
        /\ UsedStq(hist[i], c)[3] # 0 =>
             VtOf(hist[i])[c] = <<"vt", UsedStq(hist[i], c)[1] \div UsedStq(hist[i], c)[3],
                                        UsedStq(hist[i], c)[2] \div UsedStq(hist[i], c)[3]>>

C20_Witness ==
  \E i \in FaceCalls :
    /\ hist[i].ret = OK /\ ~hist[i].use_back_texture /\ hist[i].arg.stqOk
    /\ hist[i].arg.num_triangles = 1 /\ HasGeometry(hist[i].arg)
    /\ hist[i].arg.front_stq[1] = <<4, 8, 0>>
    /\ hist[i].arg.front_stq[3] = <<12, 24, 2>>
    /\ VtOf(hist[i]) = << <<"vt", 4, 8>>, <<"vt", 4, 8>>, <<"vt", 6, 12>> >>

====
